---- MODULE Spec2Model ----
(***************************************************************************)
(* Light placement by simulated annealing, optimize_light_positions of     *)
(* src/inspect_glb.py (the spec's place_lights).                           *)
(*                                                                         *)
(* Numbers.  Radii are whole units.  Angles are whole quarter turns, so    *)
(* that sin and cos are exactly -1, 0 or 1 and a sampled point is an       *)
(* integer vector <<x, y, z>>.  Distances and scores are fixed point in    *)
(* thousandths (the floor of the square root), probabilities and           *)
(* random.random() are in thousandths, temperature is in millionths.       *)
(* Indices are 0-based as in the source; a TLA+ sequence is read at i + 1. *)
(*                                                                         *)
(* The random source.  In Spec and SpecTwin every value drawn is arbitrary *)
(* (any of a small set); in SpecCalls the values come from the state of    *)
(* the process-global generator, which every draw advances.                *)
(***************************************************************************)
EXTENDS Integers, Sequences, FiniteSets, TLC

VARIABLES
    call,   \* activation record of the invocation of optimize_light_positions
    twin,   \* activation record of a second invocation (idle when there is none)
    rng,    \* state of the process-global generator of the random module
    seed,   \* the state of that generator before the first call (a record of the run)
    camera, \* activation record of an invocation of calculate_camera_distance
    view,   \* activation record of view_trimesh_object, with the lights of its scene
    store   \* MATERIALS and the dictionaries handed out by get_material

vars == <<call, twin, rng, seed, camera, view, store>>

\* What the light placement leaves alone.
aside == <<camera, view, store>>

(***************************************************************************)
(* Bounds of the model.                                                    *)
(***************************************************************************)
MaxLights == 3
MaxIter == 3
\* count * max_iterations of one call: the longest searches run on few lights
MaxWork == 4
\* number of states of the generator of the random module
RngStates == 16

Counts == (0 - 1)..MaxLights
Iterations == (0 - 1)..MaxIter
RadiusValues == {1, 2}
ListLengths == 0..MaxLights

\* random.uniform(0, 2 * np.pi), in quarter turns
PhiSet == {0, 2}
\* random.uniform(0, np.pi), in quarter turns
ThetaSet == {0, 1, 2}
\* random.random(), in thousandths: a value of [0, 1)
USet == {0, 500, 999}

\* The forms of the distances argument: None, a number, a list.
NoneArg == [kind |-> "none", val |-> << >>]
ScalarArg(r) == [kind |-> "scalar", val |-> <<r>>]
ListArg(s) == [kind |-> "list", val |-> s]
DistanceArgs ==
    {NoneArg}
    \cup {ScalarArg(r) : r \in RadiusValues}
    \cup {ListArg(s) : s \in UNION {[1..k -> RadiusValues] : k \in ListLengths}}

(***************************************************************************)
(* Arithmetic of the source.                                               *)
(***************************************************************************)
\* np.sin and np.cos at a whole number of quarter turns
Sin(k) == <<0, 1, 0, 0 - 1>>[(k % 4) + 1]
Cos(k) == <<1, 0, 0 - 1, 0>>[(k % 4) + 1]

Abs(a) == IF a < 0 THEN 0 - a ELSE a

\* Newton's iteration on integers, downwards from x >= sqrt(v)
RECURSIVE SqrtFrom(_, _)
SqrtFrom(v, x) ==
    LET y == (x + v \div x) \div 2
    IN  IF y >= x THEN x ELSE SqrtFrom(v, y)

\* the floor of the square root of v, given some hi >= sqrt(v)
Sqrt(v, hi) == IF v = 0 THEN 0 ELSE SqrtFrom(v, hi)

\* np.linalg.norm(p - q), in thousandths
Norm(p, q) ==
    LET dx == p[1] - q[1]
        dy == p[2] - q[2]
        dz == p[3] - q[3]
    IN  Sqrt((dx * dx + dy * dy + dz * dz) * 1000000,
             (Abs(dx) + Abs(dy) + Abs(dz)) * 1000)

\* e^-n in thousandths
RECURSIVE PowInvE(_)
PowInvE(n) == IF n = 0 THEN 1000 ELSE IF n > 12 THEN 0 ELSE (PowInvE(n - 1) * 368) \div 1000

\* math.exp(x) for x <= 0, x and the result in thousandths: e^-n by repeated
\* multiplication, the fractional part by its Taylor polynomial.
Exp(x) ==
    LET q == 0 - x
        n == q \div 1000
        f == q % 1000
        frac == 1000 - f + (f * f) \div 2000 - (f * f * f) \div 6000000
                + (((f * f) \div 1000) * ((f * f) \div 1000)) \div 24000
    IN  (PowInvE(n) * frac) \div 1000

(***************************************************************************)
(* optimize_light_positions, as steps on its activation record.            *)
(***************************************************************************)
initial_temperature == 1000000
cooling_rate == 995

\* Variant: every light reads the radius of light 0.
RadiusOfFirstLight(distances, i) == distances[1]

\* Variant: the list is read from its end.
RadiusOfFromEnd(distances, i) == distances[Len(distances) - i]

\* distances[i]
RadiusOf(distances, i) == distances[i + 1]

\* Variant: the guard lets a count of 0 through.
NoLightsStrict(n) == n < 0

\* if num_lights <= 0
NoLights(n) == n <= 0

\* Variant: pads with the first element.
PadValueFirst(s) == s[1]

\* distances[-1]
PadValue(s) == s[Len(s)]

\* Variant: a number is treated like None, every radius is the default.
BroadcastDefault(v, n) == [k \in 1..n |-> 1]

\* [float(distances)] * num_lights
Broadcast(v, n) == [k \in 1..n |-> v]

\* The handling of the distances parameter.
EffectiveDistances(n, d) ==
    IF d.kind = "none" THEN [k \in 1..n |-> 1]
    ELSE IF d.kind = "scalar" THEN Broadcast(d.val[1], n)
    ELSE IF Len(d.val) < n
         THEN d.val \o [k \in 1..(n - Len(d.val)) |-> PadValue(d.val)]
         ELSE d.val

\* distances[-1] of an empty list raises IndexError
PadFails(n, d) == d.kind = "list" /\ Len(d.val) < n /\ Len(d.val) = 0

\* A point at the given distance from the centre, from spherical angles.
SpherePoint(distance, phi, theta) ==
    <<distance * Sin(theta) * Cos(phi),
      distance * Sin(theta) * Sin(phi),
      distance * Cos(theta)>>

RECURSIVE SumFrom(_, _, _)
SumFrom(positions, i, j) ==
    IF i > Len(positions) THEN 0
    ELSE IF j > Len(positions) THEN SumFrom(positions, i + 1, i + 2)
    ELSE Norm(positions[i], positions[j]) + SumFrom(positions, i, j + 1)

Min(a, b) == IF a <= b THEN a ELSE b

RECURSIVE MinFrom(_, _, _)
MinFrom(positions, i, j) ==
    IF j > Len(positions)
    THEN IF i + 2 > Len(positions) THEN Norm(positions[1], positions[2])
         ELSE MinFrom(positions, i + 1, i + 2)
    ELSE Min(Norm(positions[i], positions[j]), MinFrom(positions, i, j + 1))

\* Variant: the objective is the smallest pairwise distance.
calculate_min_distance(positions) ==
    IF Len(positions) < 2 THEN 0 ELSE MinFrom(positions, 1, 2)

\* Variant: every light's distance from the centre is added up.
calculate_distance_from_centre(positions) ==
    SumFrom(<<<<0, 0, 0>>>> \o positions, 1, 2) - SumFrom(positions, 1, 2)

\* Variant: the inner loop starts at 0, so that each pair is met in both orders.
calculate_ordered_pairs_distance(positions) == 2 * SumFrom(positions, 1, 2)

\* The sum of the distances over the pairs i < j.
calculate_total_distance(positions) == SumFrom(positions, 1, 2)


\* The record of a call that has not yet started.  Beside the locals of the
\* source it keeps two records of the run: draws, the number of values taken
\* from the random source, and seen, the configurations whose score the search
\* has computed.  A position is an array object: shared holds the lights
\* whose entry of best_positions is the very array that positions holds.
NewCall(n, d, m) ==
    [pc |-> "start", num_lights |-> n, arg |-> d, max_iterations |-> m,
     distances |-> << >>, temperature |-> 0, positions |-> << >>,
     current_distance |-> 0, best_positions |-> << >>, best_distance |-> 0,
     iteration |-> 0, light_idx |-> 0, old_position |-> << >>, new_distance |-> 0,
     result |-> << >>,
     draws |-> 0, seen |-> {}, shared |-> {}]

\* No call.
Idle == [pc |-> "idle"]

\* Nothing but the light placement is in use.
NoAside == camera = Idle /\ view = Idle /\ store = Idle

\* Variant: a short list is filled up where it is (distances.extend(...)),
\* so that the caller's list grows.
CallerListExtended(n, d) ==
    IF d.kind = "list" /\ Len(d.val) < n THEN ListArg(EffectiveDistances(n, d)) ELSE d

\* What lines 322-329 leave of the object the caller passed: list(distances)
\* + [...] is a new list bound to the local name, the caller's is not written.
CallerList(n, d) == d

\* Variant: an empty list counts as no distances given (if not distances).
EnterStepLenient(f) ==
    IF NoLights(f.num_lights)
    THEN [f EXCEPT !.pc = "done", !.result = << >>]
    ELSE [f EXCEPT !.pc = "sample",
                   !.distances = EffectiveDistances(f.num_lights,
                                     IF f.arg.val = << >> THEN NoneArg ELSE f.arg),
                   !.temperature = initial_temperature]

\* The guard on num_lights, the distances parameter, temperature.
EnterStep(f) ==
    IF NoLights(f.num_lights)
    THEN [f EXCEPT !.pc = "done", !.result = << >>]
    ELSE IF PadFails(f.num_lights, f.arg)
    THEN [f EXCEPT !.pc = "error"]
    ELSE [f EXCEPT !.pc = "sample",
                   !.arg = CallerList(f.num_lights, f.arg),
                   !.distances = EffectiveDistances(f.num_lights, f.arg),
                   !.temperature = initial_temperature]

\* Variant: one position per entry of distances.
SampleCountOfList(f) == Len(f.distances)

\* for i in range(num_lights)
SampleCount(f) == f.num_lights

\* One round of the loop that generates the initial positions.
SampleStep(f, phi, theta) ==
    LET i == Len(f.positions)
    IN  [f EXCEPT !.positions =
                      Append(@, SpherePoint(RadiusOf(f.distances, i), phi, theta)),
                  !.draws = @ + 2]

\* The initial score, recorded as current and best.
ScoreStep(f) ==
    LET d == calculate_total_distance(f.positions)
    IN  [f EXCEPT !.pc = "loop", !.current_distance = d,
                  !.best_positions = f.positions, !.best_distance = d,
                  !.seen = {f.positions},
                  !.shared = 1..Len(f.positions)]

\* Variant: the coordinates are written into the array the list holds
\* (positions[idx][:] = point), which best_positions may hold as well.
StoreInPlace(f, idx, point) ==
    [f EXCEPT !.positions[idx + 1] = point,
              !.best_positions[idx + 1] = IF idx + 1 \in f.shared THEN point ELSE @]

\* positions[idx] = point: the list entry is bound to an array of its own.
StoreAt(f, idx, point) ==
    [f EXCEPT !.positions[idx + 1] = point, !.shared = @ \ {idx + 1}]

\* First half of an iteration: select a light, try a candidate position.
TryStep(f, idx, phi, theta) ==
    LET candidate == SpherePoint(RadiusOf(f.distances, idx), phi, theta)
        tried == StoreAt(f, idx, candidate)
        d == calculate_total_distance(tried.positions)
    IN  [tried EXCEPT !.pc = "decide", !.light_idx = idx,
                      !.old_position = f.positions[idx + 1],
                      !.new_distance = d,
                      !.draws = @ + 3, !.seen = @ \cup {tried.positions}]

\* The acceptance probability of a candidate that is not better.
Probability(f) ==
    Exp(((f.new_distance - f.current_distance) * 1000) \div (f.temperature \div 1000))

\* Variant: a better candidate is put to a draw as well.
AcceptsOnDraw(f, u) ==
    IF f.new_distance > f.current_distance THEN u < 500 ELSE u < Probability(f)

\* Variant: a candidate with the score of the current configuration is
\* not kept.
AcceptsNoTie(f, u) ==
    \/ f.new_distance > f.current_distance
    \/ f.new_distance < f.current_distance /\ u < Probability(f)

\* Whether the candidate is kept.
Accepts(f, u) ==
    \/ f.new_distance > f.current_distance
    \/ u < Probability(f)

\* Variant: the comparison is turned around.
ImprovesWhenWorse(current, best) == current < best

\* Variant: a score equal to the best replaces it.
ImprovesOrTies(current, best) == current >= best

\* Variant: the best record follows the current configuration.
ImprovesAlways(current, best) == TRUE

\* if current_distance > best_distance
Improves(current, best) == current > best

\* Variant: a rejected candidate is left where it is.
RevertNothing(f) == f.positions

\* Variant: the old position is put back into the first light.
RevertFirst(f) == [f.positions EXCEPT ![1] = f.old_position]

\* positions[light_idx] = old_position
Revert(f) == [f.positions EXCEPT ![f.light_idx + 1] = f.old_position]

\* Variant: the temperature falls only when the candidate is kept.
CoolDownOnAccept(f, keep) ==
    IF keep THEN (f.temperature * cooling_rate) \div 1000 ELSE f.temperature

\* temperature *= cooling_rate, whatever was decided
CoolDown(f, keep) == (f.temperature * cooling_rate) \div 1000

\* Second half of an iteration: accept or revert, update the best, cool down.
DecideStep(f, u) ==
    LET better == f.new_distance > f.current_distance
        keep == Accepts(f, u)
        cur == IF keep THEN f.new_distance ELSE f.current_distance
        pos == IF keep THEN f.positions ELSE Revert(f)
        improves == Improves(cur, f.best_distance)
    IN  [f EXCEPT !.pc = "loop", !.positions = pos, !.current_distance = cur,
                  !.best_distance = IF improves THEN cur ELSE @,
                  !.best_positions = IF improves THEN pos ELSE @,
                  !.shared = IF improves THEN {} ELSE @,
                  !.temperature = CoolDown(f, keep),
                  !.iteration = @ + 1,
                  !.draws = IF better THEN @ ELSE @ + 1]

\* Variant: the loop stops one iteration early.
LoopContinuesShort(f) == f.iteration < f.max_iterations - 1

\* The loop over range(max_iterations) goes on.
LoopContinues(f) == f.iteration < f.max_iterations

\* Variant: the configuration the search ended on is returned.
ReturnCurrentStep(f) == [f EXCEPT !.pc = "done", !.result = f.positions]

\* return best_positions
ReturnStep(f) == [f EXCEPT !.pc = "done", !.result = f.best_positions]

(***************************************************************************)
(* One invocation, every draw of the random source arbitrary.              *)
(***************************************************************************)
Init ==
    /\ \E n \in Counts, d \in DistanceArgs, m \in Iterations :
           /\ n > 0 => n * m <= MaxWork
           /\ call = NewCall(n, d, m)
    /\ twin = Idle
    /\ rng = 0
    /\ seed = 0
    /\ NoAside

Enter ==
    /\ call.pc = "start"
    /\ call' = EnterStep(call)
    /\ UNCHANGED <<twin, rng, seed, aside>>

Sample ==
    /\ call.pc = "sample"
    /\ Len(call.positions) < SampleCount(call)
    /\ \E phi \in PhiSet, theta \in ThetaSet : call' = SampleStep(call, phi, theta)
    /\ UNCHANGED <<twin, rng, seed, aside>>

Score ==
    /\ call.pc = "sample"
    /\ Len(call.positions) >= SampleCount(call)
    /\ call' = ScoreStep(call)
    /\ UNCHANGED <<twin, rng, seed, aside>>

Try ==
    /\ call.pc = "loop"
    /\ LoopContinues(call)
    /\ \E idx \in 0..(call.num_lights - 1), phi \in PhiSet, theta \in ThetaSet :
           call' = TryStep(call, idx, phi, theta)
    /\ UNCHANGED <<twin, rng, seed, aside>>

Decide ==
    /\ call.pc = "decide"
    /\ \E u \in USet : call' = DecideStep(call, u)
    /\ UNCHANGED <<twin, rng, seed, aside>>

Return ==
    /\ call.pc = "loop"
    /\ ~LoopContinues(call)
    /\ call' = ReturnStep(call)
    /\ UNCHANGED <<twin, rng, seed, aside>>

Next == Enter \/ Sample \/ Score \/ Try \/ Decide \/ Return

Spec == Init /\ [][Next]_vars

(***************************************************************************)
(* Properties of one invocation.                                           *)
(***************************************************************************)
Started(f) == f.pc \in {"sample", "loop", "decide", "done"} /\ f.num_lights > 0
Returned(f) == f.pc = "done" /\ f.num_lights > 0

Max(a, b) == IF a >= b THEN a ELSE b

\* ||p|| = |r|, on the squares
OnSphere(p, r) == p[1] * p[1] + p[2] * p[2] + p[3] * p[3] = r * r

Pairs(ps) == {p \in (1..Len(ps)) \X (1..Len(ps)) : p[1] < p[2]}

RECURSIVE SumOver(_, _)
SumOver(S, ps) ==
    IF S = {} THEN 0
    ELSE LET p == CHOOSE x \in S : TRUE
         IN  Norm(ps[p[1]], ps[p[2]]) + SumOver(S \ {p}, ps)

\* The sum of the distances between the lights, over the unordered pairs.
PairwiseSum(ps) == SumOver(Pairs(ps), ps)

\* The smallest distance between two lights; 0 when there is no pair.
MinPairwise(ps) ==
    IF Pairs(ps) = {} THEN 0
    ELSE LET ds == {Norm(ps[p[1]], ps[p[2]]) : p \in Pairs(ps)}
         IN  CHOOSE d \in ds : \A e \in ds : d <= e

AllOnSpheres(f, ps) ==
    \A i \in 1..Len(ps) : OnSphere(ps[i], f.distances[i])

\* C1: in every state of a search (during the initial sampling, while a
\* candidate is being tried, after an accept or a revert, in the result) each
\* positions[i] and each best_positions[i] lies on the sphere of light i's own
\* effective radius.
C1_OnOwnSphere ==
    Started(call) =>
        /\ AllOnSpheres(call, call.positions)
        /\ AllOnSpheres(call, call.best_positions)
        /\ AllOnSpheres(call, call.result)

\* A candidate is being tried for a light whose radius differs from another
\* light's, and the best record differs from the positions.
C1_Witness ==
    /\ call.pc = "decide"
    /\ call.iteration >= 1
    /\ call.best_positions # call.positions
    /\ \E i, j \in 1..Len(call.distances) : call.distances[i] # call.distances[j]
    /\ call.positions[call.light_idx + 1] # call.old_position

\* C2: the configuration returned scores at least as much as every
\* configuration the search evaluated (the initial one, every candidate,
\* accepted or rejected).
C2_ReturnsBestSeen ==
    Returned(call) =>
        /\ call.result = call.best_positions
        /\ calculate_total_distance(call.result) = call.best_distance
        /\ \A c \in call.seen : call.best_distance >= calculate_total_distance(c)

\* The search returns a configuration that is better than the one it ends on.
C2_Witness ==
    /\ Returned(call)
    /\ call.iteration >= 2
    /\ call.current_distance < call.best_distance
    /\ call.result # call.positions

\* C3: for count > 0 and distances absent, a number or a non-empty list
\* (shorter than, as long as or longer than count), the call raises no error and
\* returns exactly count positions, entry i on the sphere of light i.
C3_ReturnsCountPositions ==
    (call.num_lights > 0 /\ ~PadFails(call.num_lights, call.arg)) =>
        /\ call.pc # "error"
        /\ call.pc = "done" =>
               /\ Len(call.result) = call.num_lights
               /\ AllOnSpheres(call, call.result)

C3_Witness ==
    /\ Returned(call)
    /\ call.num_lights = 2
    /\ call.arg.kind = "list"
    /\ Len(call.arg.val) = 3
    /\ call.iteration = 1

\* C4: for count <= 0 the call returns the empty list at once, whatever
\* distances and max_iterations are: no error, no draw from the random source,
\* no position sampled, no iteration.
C4_NoLightsReturnsEmpty ==
    (call.num_lights <= 0 /\ call.pc # "start") =>
        /\ call.pc = "done"
        /\ call.result = << >>
        /\ call.draws = 0
        /\ call.iteration = 0
        /\ call.positions = << >>

C4_Witness ==
    /\ call.pc = "done"
    /\ call.num_lights = 0
    /\ call.arg = ListArg(<< >>)
    /\ call.max_iterations = MaxIter

\* C5 as stated: no configuration evaluated during the search has a larger
\* minimum pairwise distance than the configuration returned.
C5_MaximizesMinSeparation ==
    Returned(call) =>
        \A c \in call.seen : MinPairwise(call.result) >= MinPairwise(c)

\* C5 as amended: the search maximizes the sum of the pairwise distances; no
\* configuration evaluated has a larger sum than the configuration returned.
C5_MaximizesTotalDistance ==
    Returned(call) =>
        LET total == PairwiseSum(call.result)
        IN  \A c \in call.seen : total >= PairwiseSum(c)

\* The configuration returned has the largest sum but not the largest minimum
\* separation of those evaluated.
C5_Witness ==
    /\ Returned(call)
    /\ call.num_lights = 3
    /\ call.iteration >= 1
    /\ \E c \in call.seen :
           /\ MinPairwise(c) > MinPairwise(call.result)
           /\ PairwiseSum(c) < PairwiseSum(call.result)

\* C6: a non-empty list of length L < count gives light i the radius
\* distances[i] for i < L and the last element, distances[L - 1], for
\* L <= i < count; the positions are sampled on those radii.
C6_ShortListPadsWithLast ==
    LET L == Len(call.arg.val)
    IN  (Started(call) /\ call.arg.kind = "list" /\ 0 < L /\ L < call.num_lights) =>
            /\ Len(call.distances) = call.num_lights
            /\ \A i \in 0..(call.num_lights - 1) :
                   call.distances[i + 1] =
                       IF i < L THEN call.arg.val[i + 1] ELSE call.arg.val[L]
            /\ \A i \in 0..(Len(call.positions) - 1) :
                   OnSphere(call.positions[i + 1],
                            IF i < L THEN call.arg.val[i + 1] ELSE call.arg.val[L])

C6_Witness ==
    /\ Returned(call)
    /\ call.num_lights = 3
    /\ call.arg = ListArg(<<1, 2>>)
    /\ call.distances = <<1, 2, 2>>

\* C9: for count > 0 the loop runs exactly max_iterations times (none for a
\* max_iterations below 1): the call returns only after that many iterations,
\* never earlier, and returns best_positions; with no iteration that is the
\* initial configuration.  At the head of the loop the return is possible exactly
\* when no iteration is left.
C9_RunsFullBudget ==
    (Started(call)) =>
        /\ call.iteration <= Max(call.max_iterations, 0)
        /\ call.pc = "done" =>
               /\ call.iteration = Max(call.max_iterations, 0)
               /\ call.result = call.best_positions
               /\ call.max_iterations <= 0 => call.result = call.positions
        /\ call.pc = "loop" =>
               ((ENABLED Return) <=> call.iteration >= call.max_iterations)

C9_Witness ==
    /\ Returned(call)
    /\ call.num_lights >= 2
    /\ call.max_iterations >= 2
    /\ call.iteration = call.max_iterations
    /\ call.draws > 2 * call.num_lights + 3 * call.max_iterations

\* C15: with one light there is no pair, so the objective is 0 for every
\* configuration: current_distance, best_distance and every candidate score
\* are 0 in every state, and the one returned position lies on the light's
\* sphere.
C15_OneLightScoresZero ==
    call.num_lights = 1 =>
        /\ call.current_distance = 0
        /\ call.best_distance = 0
        /\ call.new_distance = 0
        /\ \A ps \in call.seen : Len(ps) = 1 /\ Pairs(ps) = {}
        /\ call.pc = "done" =>
               /\ Len(call.result) = 1
               /\ OnSphere(call.result[1], call.distances[1])

\* One light, returned after two iterations that tried two other positions.
C15_Witness ==
    /\ call.num_lights = 1
    /\ call.pc = "done"
    /\ call.iteration = 2
    /\ Cardinality(call.seen) = 3
    /\ call.best_distance = 0

\* The two-element sets of lights.
UnorderedPairs(ps) ==
    {{i, j} : i \in 1..Len(ps), j \in 1..Len(ps)} \ {{i} : i \in 1..Len(ps)}

\* The distance between the two lights of a pair.
PairDistance(pair, ps) ==
    LET i == CHOOSE x \in pair : TRUE
        j == CHOOSE x \in pair : x # i
    IN  Norm(ps[i], ps[j])

RECURSIVE SumOfPairs(_, _)
SumOfPairs(S, ps) ==
    IF S = {} THEN 0
    ELSE LET pair == CHOOSE x \in S : TRUE
         IN  PairDistance(pair, ps) + SumOfPairs(S \ {pair}, ps)

\* The lights in another order.
Reordered(ps, perm) == [k \in 1..Len(ps) |-> ps[perm[k]]]

\* C19: every score the search computes (of the initial configuration and of
\* each candidate configuration) is the sum of the Euclidean distances over
\* the two-element sets of lights, each set once, no light with itself, no
\* weight per radius; and the objective gives the same score for the lights
\* in any other order.
C19_ScoreIsSumOverUnorderedPairs ==
    /\ (call.pc = "loop" /\ call.iteration = 0) =>
           call.current_distance = SumOfPairs(UnorderedPairs(call.positions), call.positions)
    /\ call.pc = "decide" =>
           /\ call.new_distance = SumOfPairs(UnorderedPairs(call.positions), call.positions)
           /\ \A perm \in Permutations(1..Len(call.positions)) :
                  calculate_total_distance(Reordered(call.positions, perm)) = call.new_distance

\* Three lights of different radii at three different places.
C19_Witness ==
    /\ call.pc = "decide"
    /\ call.num_lights = 3
    /\ call.distances = <<1, 2, 2>>
    /\ Cardinality({call.positions[i] : i \in 1..3}) = 3
    /\ call.new_distance > call.current_distance
    /\ call.current_distance > 0

\* C20: when the candidate's score is strictly greater than current_distance,
\* the step that ends the iteration keeps the candidate whatever the random
\* source holds: it takes no draw, the selected light still has the candidate
\* position, and current_distance becomes the candidate's score.
C20_BetterAlwaysAccepted ==
    [][(call.pc = "decide" /\ call.new_distance > call.current_distance) =>
           /\ call'.pc = "loop"
           /\ call'.positions = call.positions
           /\ call'.positions[call.light_idx + 1] # call.old_position
           /\ call'.current_distance = call.new_distance
           /\ call'.draws = call.draws]_vars

\* After a first iteration that took no acceptance draw and moved the light.
C20_Witness ==
    /\ call.pc = "loop"
    /\ call.iteration = 1
    /\ call.num_lights = 2
    /\ call.draws = 2 * call.num_lights + 3
    /\ call.current_distance = call.new_distance
    /\ call.best_distance = call.current_distance
    /\ call.positions[call.light_idx + 1] # call.old_position

\* The configuration before the iteration whose candidate is being decided.
BeforeTry(f) == [f.positions EXCEPT ![f.light_idx + 1] = f.old_position]

\* C21: when the candidate is rejected (the score of the candidate does not
\* become the current score), the step that ends the iteration leaves every
\* light, the selected one too, at the position it had before the iteration,
\* and current_distance, best_distance and best_positions as they were before
\* it; of the search state only temperature changes, and the iteration is
\* counted.
C21_RejectLeavesSearchUnchanged ==
    [][/\ (call.pc = "loop" /\ call'.pc = "decide") =>
              /\ BeforeTry(call') = call.positions
              /\ call'.current_distance = call.current_distance
              /\ call'.best_distance = call.best_distance
              /\ call'.best_positions = call.best_positions
       /\ (call.pc = "decide" /\ call'.current_distance # call.new_distance) =>
              /\ call'.positions = BeforeTry(call)
              /\ call'.current_distance = call.current_distance
              /\ call'.best_distance = call.best_distance
              /\ call'.best_positions = call.best_positions
              /\ call'.temperature < call.temperature
              /\ call'.distances = call.distances
              /\ call'.iteration = call.iteration + 1]_vars

\* After a first iteration whose candidate was put to the draw and rejected.
C21_Witness ==
    /\ call.pc = "loop"
    /\ call.iteration = 1
    /\ call.num_lights = 2
    /\ call.draws = 2 * call.num_lights + 4
    /\ call.new_distance < call.current_distance
    /\ call.positions[call.light_idx + 1] = call.old_position
    /\ call.positions = call.best_positions

\* C22: an iteration gives a new position to the selected light only, on that
\* light's own radius: every other light has the same position after the
\* candidate is tried and after it is accepted or rejected.
C22_OnlySelectedLightMoves ==
    [][/\ (call.pc = "loop" /\ call'.pc = "decide") =>
              /\ \A j \in 1..call.num_lights :
                     j # call'.light_idx + 1 => call'.positions[j] = call.positions[j]
              /\ OnSphere(call'.positions[call'.light_idx + 1],
                          call.distances[call'.light_idx + 1])
       /\ call.pc = "decide" =>
              /\ \A j \in 1..call.num_lights :
                     j # call.light_idx + 1 => call'.positions[j] = call.positions[j]
              /\ call'.positions[call.light_idx + 1]
                     \in {call.positions[call.light_idx + 1], call.old_position}]_vars

\* Three lights of two radii; the third was selected, its candidate rejected.
C22_Witness ==
    /\ call.pc = "loop"
    /\ call.iteration = 1
    /\ call.num_lights = 3
    /\ call.distances = <<1, 1, 2>>
    /\ call.light_idx = 2
    /\ call.new_distance < call.current_distance
    /\ call.positions[3] = call.old_position

\* C23: the step that ends an iteration updates the best record exactly when
\* current_distance, as it is after the accept/reject decision, is strictly
\* greater than best_distance: then best_distance becomes current_distance
\* and best_positions the positions of that moment; otherwise both stay.
C23_BestUpdatedOnStrictImprovement ==
    [][call.pc = "decide" =>
           IF call'.current_distance > call.best_distance
           THEN /\ call'.best_distance = call'.current_distance
                /\ call'.best_positions = call'.positions
           ELSE /\ call'.best_distance = call.best_distance
                /\ call'.best_positions = call.best_positions]_vars

\* After two iterations: the first raised the best, the second ended on a
\* configuration with a lower score that was kept and left the best alone.
C23_Witness ==
    /\ call.pc = "loop"
    /\ call.iteration = 2
    /\ call.num_lights = 2
    /\ call.best_distance > 0
    /\ call.current_distance < call.best_distance
    /\ call.current_distance = call.new_distance
    /\ call.best_positions # call.positions

\* 0.995 to the power k, in millionths, one factor at a time.
RECURSIVE CoolingPower(_)
CoolingPower(k) == IF k = 0 THEN 1000000 ELSE (CoolingPower(k - 1) * 995) \div 1000

\* C24: temperature is 1.0 when the search begins and after k completed
\* iterations it is 0.995^k, whether the candidates were accepted or
\* rejected: it falls once in every iteration and only then.
C24_TemperatureIsPowerOfRate ==
    (call.pc \in {"sample", "loop", "decide", "done"} /\ call.num_lights > 0) =>
        /\ call.temperature = CoolingPower(call.iteration)
        /\ call.iteration = 0 => call.temperature = 1000000
        /\ call.iteration > 0 => call.temperature < CoolingPower(call.iteration - 1)

\* Returned after two iterations, the last candidate rejected.
C24_Witness ==
    /\ call.pc = "done"
    /\ call.iteration = 2
    /\ call.temperature = 990025
    /\ call.new_distance < call.current_distance

\* C25: best_distance starts as the initial score, never decreases in a
\* step of the search, and at the end of every iteration is at least
\* current_distance.
C25_BestNeverDecreases ==
    [][/\ (call.pc = "sample" /\ call'.pc = "loop") =>
              /\ call'.best_distance = call'.current_distance
              /\ call'.best_positions = call.positions
       /\ call.pc \in {"loop", "decide"} => call'.best_distance >= call.best_distance
       /\ call'.pc \in {"loop", "done"} => call'.best_distance >= call'.current_distance]_vars

\* The search went below its best: the current score is lower than the best
\* after the second iteration.
C25_Witness ==
    /\ call.pc = "loop"
    /\ call.iteration = 2
    /\ call.num_lights = 2
    /\ call.best_distance > call.current_distance
    /\ call.current_distance = call.new_distance

\* C26: the recorded scores are the scores of the recorded configurations:
\* after the initial scoring and at the end of every iteration
\* current_distance is the objective of positions, and in every state of the
\* search best_distance is the objective of best_positions; a step that does
\* not update the best record (trying a candidate, accepting it, reverting
\* it) leaves best_positions as it was.
C26_ScoresMatchConfigurations ==
    [][/\ call'.pc \in {"loop", "decide", "done"} /\ call'.num_lights > 0 =>
              call'.best_distance = PairwiseSum(call'.best_positions)
       /\ call'.pc \in {"loop", "done"} /\ call'.num_lights > 0 =>
              call'.current_distance = PairwiseSum(call'.positions)
       /\ (call.pc \in {"loop", "decide"} /\ call'.best_distance = call.best_distance) =>
              call'.best_positions = call.best_positions]_vars

\* The light whose array the best record took over at the start was given a
\* candidate, which was kept; the best record still has the first positions.
C26_Witness ==
    /\ call.pc = "loop"
    /\ call.iteration = 1
    /\ call.num_lights = 2
    /\ call.current_distance = call.new_distance
    /\ call.current_distance < call.best_distance
    /\ call.best_positions # call.positions
    /\ call.best_positions[call.light_idx + 1] = call.old_position
    /\ call.shared = {2 - call.light_idx}

\* C27: a candidate whose score equals current_distance is kept whatever the
\* random source gives (the probability is exp(0) = 1 and the draw is below
\* 1): the selected light keeps the candidate position.  A step that puts
\* the old position back had a candidate with a strictly lower score.
C27_TieAlwaysAccepted ==
    [][/\ (call.pc = "decide" /\ call.new_distance = call.current_distance) =>
              /\ call'.positions = call.positions
              /\ call'.current_distance = call.new_distance
              /\ call'.draws = call.draws + 1
       /\ (call.pc = "decide" /\ call'.positions # call.positions) =>
              call.new_distance < call.current_distance]_vars

\* Two lights; the iteration took the acceptance draw and moved a light to
\* another place at the same score.
C27_Witness ==
    /\ call.pc = "loop"
    /\ call.iteration = 1
    /\ call.num_lights = 2
    /\ call.draws = 2 * call.num_lights + 4
    /\ call.current_distance = call.new_distance
    /\ call.current_distance = call.best_distance
    /\ call.current_distance > 0
    /\ call.positions[call.light_idx + 1] # call.old_position

\* C28: with one light the position returned is the first one sampled:
\* every candidate has the score 0 of the current configuration and is kept
\* in positions, the best record is set once, from the initial sample, and
\* no iteration changes it, and the call returns it.
C28_OneLightReturnsInitialSample ==
    [][call.num_lights = 1 =>
           /\ (call.pc = "sample" /\ call'.pc = "loop") =>
                  call'.best_positions = call.positions
           /\ call.pc = "decide" =>
                  /\ call.new_distance = call.current_distance
                  /\ call'.positions = call.positions
           /\ call.pc \in {"loop", "decide"} =>
                  call'.best_positions = call.best_positions
           /\ call'.pc = "done" => call'.result = call.best_positions]_vars

\* One light, two iterations: the search ended on another point than the one
\* it returns.
C28_Witness ==
    /\ call.pc = "done"
    /\ call.num_lights = 1
    /\ call.iteration = 2
    /\ call.result # call.positions
    /\ call.result = call.best_positions
    /\ call.positions[1] # call.old_position

\* C29: no step of the call changes the distances argument of the caller: a
\* list, shorter than count, of count entries or longer, has the same entries
\* in every state and after the return.
C29_ArgumentNotModified ==
    [][call'.arg = call.arg]_vars

\* A list of one entry for three lights: the call has padded its own
\* distances and returned.
C29_Witness ==
    /\ call.pc = "done"
    /\ call.num_lights = 3
    /\ call.arg = ListArg(<<2>>)
    /\ call.distances = <<2, 2, 2>>
    /\ Len(call.result) = 3

\* C30: with count > 0 and an empty list as distances the call ends in an
\* error at the padding, before any draw is taken or position sampled, and
\* returns nothing.
C30_EmptyListRaises ==
    (call.num_lights > 0 /\ call.arg = ListArg(<< >>) /\ call.pc # "start") =>
        /\ call.pc = "error"
        /\ call.draws = 0
        /\ call.positions = << >>
        /\ call.result = << >>

\* The empty list with three lights: the call has ended in the error.
C30_Witness ==
    /\ call.pc = "error"
    /\ call.num_lights = 3
    /\ call.arg = ListArg(<< >>)
    /\ call.max_iterations = 1

(***************************************************************************)
(* Calls whose distances hold a negative radius.                           *)
(***************************************************************************)
NegativeRadii == {0 - r : r \in RadiusValues}

\* A negative number, or a list of at most n entries one of which is negative.
MalformedArgs(n) ==
    {ScalarArg(r) : r \in NegativeRadii}
    \cup {ListArg(s) : s \in {t \in UNION {[1..k -> RadiusValues \cup NegativeRadii] : k \in 1..n} :
                                  \E i \in 1..Len(t) : t[i] < 0}}

InitMalformed ==
    /\ \E n \in 1..MaxLights, m \in 0..MaxIter :
           /\ n * m <= MaxWork
           /\ \E d \in MalformedArgs(n) : call = NewCall(n, d, m)
    /\ twin = Idle
    /\ rng = 0
    /\ seed = 0
    /\ NoAside

SpecMalformed == InitMalformed /\ [][Next]_vars

\* C16: a call with count > 0 one of whose effective radii is negative ends
\* in an error and returns no positions.
C16_NegativeRadiusFailsFast ==
    (call.num_lights > 0 /\ call.pc # "start"
         /\ \E i \in 1..call.num_lights : call.distances[i] < 0) =>
        /\ call.pc # "done"
        /\ call.result = << >>

(***************************************************************************)
(* Two invocations side by side, both given the same draws: the same count *)
(* and max_iterations, and two forms of distances to compare.              *)
(***************************************************************************)
Lists == UNION {[1..k -> RadiusValues] : k \in ListLengths}

\* A number and the list of n copies of it; a list of n entries or more and
\* its first n entries (the list itself when it has n entries); the same
\* argument twice.
ComparedArgs(n) ==
    {<<ScalarArg(r), ListArg([k \in 1..n |-> r])>> : r \in RadiusValues}
    \cup {<<ListArg(s), ListArg(SubSeq(s, 1, n))>> : s \in {t \in Lists : Len(t) >= n}}
    \cup {<<d, d>> : d \in {NoneArg} \cup {ScalarArg(r) : r \in RadiusValues}}

InitTwin ==
    /\ \E n \in 1..MaxLights, m \in Iterations :
           /\ n * m <= MaxWork
           /\ \E p \in ComparedArgs(n) :
                  /\ call = NewCall(n, p[1], m)
                  /\ twin = NewCall(n, p[2], m)
    /\ rng = 0
    /\ seed = 0
    /\ NoAside

TwinEnter ==
    /\ call.pc = "start" /\ twin.pc = "start"
    /\ call' = EnterStep(call)
    /\ twin' = EnterStep(twin)
    /\ UNCHANGED <<rng, seed, aside>>

TwinSample ==
    /\ call.pc = "sample" /\ twin.pc = "sample"
    /\ Len(call.positions) < SampleCount(call)
    /\ Len(twin.positions) < SampleCount(twin)
    /\ \E phi \in PhiSet, theta \in ThetaSet :
           /\ call' = SampleStep(call, phi, theta)
           /\ twin' = SampleStep(twin, phi, theta)
    /\ UNCHANGED <<rng, seed, aside>>

TwinScore ==
    /\ call.pc = "sample" /\ twin.pc = "sample"
    /\ Len(call.positions) >= SampleCount(call)
    /\ Len(twin.positions) >= SampleCount(twin)
    /\ call' = ScoreStep(call)
    /\ twin' = ScoreStep(twin)
    /\ UNCHANGED <<rng, seed, aside>>

TwinTry ==
    /\ call.pc = "loop" /\ twin.pc = "loop"
    /\ LoopContinues(call) /\ LoopContinues(twin)
    /\ \E idx \in 0..(call.num_lights - 1), phi \in PhiSet, theta \in ThetaSet :
           /\ call' = TryStep(call, idx, phi, theta)
           /\ twin' = TryStep(twin, idx, phi, theta)
    /\ UNCHANGED <<rng, seed, aside>>

\* The second call is given an acceptance draw of its own.
TwinDecideOwnDraw ==
    /\ call.pc = "decide" /\ twin.pc = "decide"
    /\ \E u \in USet, v \in USet :
           /\ call' = DecideStep(call, u)
           /\ twin' = DecideStep(twin, v)
    /\ UNCHANGED <<rng, seed, aside>>

TwinDecide ==
    /\ call.pc = "decide" /\ twin.pc = "decide"
    /\ \E u \in USet :
           /\ call' = DecideStep(call, u)
           /\ twin' = DecideStep(twin, u)
    /\ UNCHANGED <<rng, seed, aside>>

TwinReturn ==
    /\ call.pc = "loop" /\ twin.pc = "loop"
    /\ ~LoopContinues(call) /\ ~LoopContinues(twin)
    /\ call' = ReturnStep(call)
    /\ twin' = ReturnStep(twin)
    /\ UNCHANGED <<rng, seed, aside>>

NextTwin == TwinEnter \/ TwinSample \/ TwinScore \/ TwinTry \/ TwinDecide \/ TwinReturn

SpecTwin == InitTwin /\ [][NextTwin]_vars

(***************************************************************************)
(* Properties of two invocations side by side.                             *)
(***************************************************************************)
\* The two searches are at the same place with the same positions, scores,
\* best record, temperature and result.
SameSearch(f, g) ==
    /\ f.pc = g.pc
    /\ f.positions = g.positions
    /\ f.current_distance = g.current_distance
    /\ f.best_positions = g.best_positions
    /\ f.best_distance = g.best_distance
    /\ f.temperature = g.temperature
    /\ f.iteration = g.iteration
    /\ f.light_idx = g.light_idx
    /\ f.old_position = g.old_position
    /\ f.new_distance = g.new_distance
    /\ f.result = g.result
    /\ f.draws = g.draws

\* C7: a number r as distances and the list of count copies of r give every
\* light the same effective radius, and with the same draws the two calls go
\* through the same search states and return the same positions.
C7_ScalarAsListOfCopies ==
    call.arg.kind = "scalar" =>
        /\ call.distances = twin.distances
        /\ call.pc # "start" =>
               \A i \in 1..call.num_lights : call.distances[i] = call.arg.val[1]
        /\ SameSearch(call, twin)

C7_Witness ==
    /\ call.arg = ScalarArg(2)
    /\ twin.arg = ListArg(<<2, 2>>)
    /\ call.pc = "done" /\ twin.pc = "done"
    /\ call.iteration = 2
    /\ call.result # call.positions

\* C8: of a list of count entries or more only the first count are used: light
\* i has the radius distances[i] and is sampled on it, and the call with the
\* whole list and the call with its first count entries, given the same draws,
\* go through the same search states and return the same positions.
C8_OnlyFirstCountEntries ==
    (call.arg.kind = "list" /\ call.pc # "start") =>
        /\ \A i \in 1..call.num_lights : call.distances[i] = call.arg.val[i]
        /\ \A i \in 1..Len(call.positions) :
               OnSphere(call.positions[i], call.arg.val[i])
        /\ SameSearch(call, twin)

\* The list is longer than count and an unused entry differs from every used one.
C8_Witness ==
    /\ call.arg = ListArg(<<1, 1, 2>>)
    /\ call.num_lights = 2
    /\ twin.arg = ListArg(<<1, 1>>)
    /\ call.pc = "done" /\ twin.pc = "done"
    /\ call.iteration = 2

Advance(s) == (s * 5 + 3) % RngStates

\* random.uniform(0, 2 * np.pi), to the nearest quarter turn
PhiOf(s) == ((4 * s + (RngStates \div 2)) \div RngStates) % 4
\* random.uniform(0, np.pi), to the nearest quarter turn
ThetaOf(s) == (2 * s + (RngStates \div 2)) \div RngStates
\* random.randint(0, n - 1)
IndexOf(s, n) == (s * n) \div RngStates
\* random.random(), in thousandths
RandomOf(s) == (s * 1000) \div RngStates

\* The next step of a call that draws from the generator in state s: the
\* record after the step and the state the generator is left in.
StepFrom(f, s) ==
    LET s1 == Advance(s)
        s2 == Advance(s1)
        s3 == Advance(s2)
    IN  IF f.pc = "start" THEN <<EnterStep(f), s>>
        ELSE IF f.pc = "sample" /\ Len(f.positions) < SampleCount(f)
        THEN <<SampleStep(f, PhiOf(s1), ThetaOf(s2)), s2>>
        ELSE IF f.pc = "sample" THEN <<ScoreStep(f), s>>
        ELSE IF f.pc = "loop" /\ LoopContinues(f)
        THEN <<TryStep(f, IndexOf(s1, f.num_lights), PhiOf(s2), ThetaOf(s3)), s3>>
        ELSE IF f.pc = "loop" THEN <<ReturnStep(f), s>>
        ELSE IF f.new_distance > f.current_distance THEN <<DecideStep(f, 0), s>>
        ELSE <<DecideStep(f, RandomOf(s1)), s1>>

Running(f) == f.pc \in {"start", "sample", "loop", "decide"}

InitCalls ==
    /\ \E n1, n2 \in 1..MaxLights, m1, m2 \in 0..MaxIter,
          d1, d2 \in {NoneArg} \cup {ScalarArg(r) : r \in RadiusValues} :
           /\ n1 * (m1 + 1) + n2 * (m2 + 1) <= MaxWork
           /\ call = NewCall(n1, d1, m1)
           /\ twin = NewCall(n2, d2, m2)
    /\ rng \in 0..(RngStates - 1)
    /\ seed = rng
    /\ NoAside

CallStep ==
    /\ Running(call)
    /\ call' = StepFrom(call, rng)[1]
    /\ rng' = StepFrom(call, rng)[2]
    /\ UNCHANGED <<twin, seed, aside>>

TwinStep ==
    /\ Running(twin)
    /\ twin' = StepFrom(twin, rng)[1]
    /\ rng' = StepFrom(twin, rng)[2]
    /\ UNCHANGED <<call, seed, aside>>

NextCalls == CallStep \/ TwinStep

SpecCalls == InitCalls /\ [][NextCalls]_vars

(***************************************************************************)
(* Properties of two invocations in one process.                           *)
(***************************************************************************)
\* The call run to its end with no other call, the generator starting in s.
RECURSIVE RunAlone(_, _)
RunAlone(f, s) ==
    IF Running(f) THEN RunAlone(StepFrom(f, s)[1], StepFrom(f, s)[2]) ELSE f

Alone(f) == RunAlone(NewCall(f.num_lights, f.arg, f.max_iterations), seed)

\* C10: when two invocations run one after the other or interleaved, each
\* returns the positions it returns when the other has not run.
C10_UnaffectedByOtherCall ==
    /\ call.pc = "done" => call.result = Alone(call).result
    /\ twin.pc = "done" => twin.result = Alone(twin).result

(***************************************************************************)
(* The camera distance, calculate_camera_distance of src/utils.py (the     *)
(* spec's camera_distance).                                                *)
(*                                                                         *)
(* Numbers.  object_scale is in whole units, the fill fraction in          *)
(* thousandths, fov in twelfths of pi.  Quotients are kept exact, as       *)
(* fractions <<numerator, denominator>> in lowest terms with a positive    *)
(* denominator.  tan(fov / 2) is read from a table, in thousandths.        *)
(***************************************************************************)
MaxScale == 4

Scales == 1..MaxScale
\* fov = pi/3 (the viewer's value), pi/2, 2 pi/3
Fovs == {4, 6, 8}
\* fill fractions below, inside and above [0.1, 1.0]; each has an exact half
FillValues == {0 - 500, 0, 10, 20, 50, 100, 150, 200, 300, 400, 500, 750, 800,
               1000, 1500, 2000, 3000}

RECURSIVE Gcd(_, _)
Gcd(a, b) == IF b = 0 THEN a ELSE Gcd(b, a % b)

\* The fraction n / d, d # 0, in lowest terms.
Rat(n, d) ==
    LET g == Gcd(Abs(n), Abs(d))
        sign == IF d < 0 THEN 0 - 1 ELSE 1
    IN  <<sign * (n \div g), sign * (d \div g)>>

RatMul(a, b) == Rat(a[1] * b[1], a[2] * b[2])
RatDiv(a, b) == Rat(a[1] * b[2], a[2] * b[1])

\* math.tan(fov / 2), in thousandths: tan(pi/6), tan(pi/4), tan(pi/3)
TanHalf(fov) ==
    CASE fov = 4 -> 577
      [] fov = 6 -> 1000
      [] fov = 8 -> 1732

\* The record of a call that has not yet started.
NewCamera(object_scale, fov, fill) ==
    [pc |-> "start", object_scale |-> object_scale, fov |-> fov, arg |-> fill,
     screen_fill_percentage |-> fill, distance_multiplier |-> <<0, 1>>,
     base_distance |-> <<0, 1>>, dist |-> <<0, 1>>, result |-> <<0, 1>>]

\* Variant: the fill fraction is used as it comes.
NoClamp(fill) == fill

\* max(0.1, min(1.0, screen_fill_percentage))
Clamp(fill) == Max(100, Min(1000, fill))

ClampStep(c) ==
    [c EXCEPT !.pc = "clamped", !.screen_fill_percentage = Clamp(@)]

\* Variant: the multiplier falls in a straight line from 2 at fill 0 to 1 at
\* fill 1.
LinearMultiplier(fill) == Rat(2000 - fill, 1000)

\* 1.0 / screen_fill_percentage
Multiplier(fill) == Rat(1000, fill)

\* Dividing by 0.0 raises ZeroDivisionError.
MultiplierStep(c) ==
    IF c.screen_fill_percentage = 0 THEN [c EXCEPT !.pc = "error"]
    ELSE [c EXCEPT !.pc = "multiplier",
                   !.distance_multiplier = Multiplier(c.screen_fill_percentage)]

\* Variant: the scale is multiplied by the tangent.
BaseTimesTan(object_scale, fov) == Rat(object_scale * TanHalf(fov), 1000)

\* object_scale / math.tan(fov / 2)
BaseDistance(object_scale, fov) == Rat(object_scale * 1000, TanHalf(fov))

BaseStep(c) ==
    [c EXCEPT !.pc = "base", !.base_distance = BaseDistance(c.object_scale, c.fov)]

\* dist = base_distance * distance_multiplier; return dist
DistanceStep(c) ==
    LET d == RatMul(c.base_distance, c.distance_multiplier)
    IN  [c EXCEPT !.pc = "done", !.dist = d, !.result = d]

\* The whole function; NoDistance when it raises.
NoDistance == <<0, 0>>

calculate_camera_distance(object_scale, fov, fill) ==
    LET m == MultiplierStep(ClampStep(NewCamera(object_scale, fov, fill)))
    IN  IF m.pc = "error" THEN NoDistance ELSE DistanceStep(BaseStep(m)).result

InitCamera ==
    /\ \E object_scale \in Scales, fov \in Fovs, fill \in FillValues :
           camera = NewCamera(object_scale, fov, fill)
    /\ call = Idle /\ twin = Idle /\ rng = 0 /\ seed = 0
    /\ view = Idle /\ store = Idle

CameraClamp ==
    /\ camera.pc = "start"
    /\ camera' = ClampStep(camera)
    /\ UNCHANGED <<call, twin, rng, seed, view, store>>

CameraMultiplier ==
    /\ camera.pc = "clamped"
    /\ camera' = MultiplierStep(camera)
    /\ UNCHANGED <<call, twin, rng, seed, view, store>>

CameraBase ==
    /\ camera.pc = "multiplier"
    /\ camera' = BaseStep(camera)
    /\ UNCHANGED <<call, twin, rng, seed, view, store>>

CameraReturn ==
    /\ camera.pc = "base"
    /\ camera' = DistanceStep(camera)
    /\ UNCHANGED <<call, twin, rng, seed, view, store>>

NextCamera == CameraClamp \/ CameraMultiplier \/ CameraBase \/ CameraReturn

SpecCamera == InitCamera /\ [][NextCamera]_vars

(***************************************************************************)
(* Properties of the camera distance.                                      *)
(***************************************************************************)
\* The fill fraction brought into [0.1, 1.0].
FillInRange(fill) == IF fill < 100 THEN 100 ELSE IF fill > 1000 THEN 1000 ELSE fill

\* object_scale / tan(fov / 2), as a quotient of two fractions.
ScaleOverTan(c) == RatDiv(<<c.object_scale, 1>>, Rat(TanHalf(c.fov), 1000))

\* C12: the call returns base_distance / f, where base_distance is
\* object_scale / tan(fov / 2) and f is the fill fraction clamped to
\* [0.1, 1.0]; for a fill fraction of 1.0 it returns base_distance.
C12_DistanceIsBaseOverFill ==
    camera.pc = "done" =>
        /\ camera.base_distance = ScaleOverTan(camera)
        /\ camera.result = RatDiv(ScaleOverTan(camera), Rat(FillInRange(camera.arg), 1000))
        /\ camera.arg = 1000 => camera.result = camera.base_distance

\* The default fill fraction 0.75 with the viewer's fov.
C12_Witness ==
    /\ camera.pc = "done"
    /\ camera.arg = 750
    /\ camera.fov = 4
    /\ camera.object_scale = 3
    /\ camera.result = <<4000, 577>>

\* C13: the fill fraction is clamped to [0.1, 1.0] before the division and
\* the call raises for no value of it: a fraction of 0.1 or less (0.01, 0,
\* negative) gives the distance of 0.1, a fraction of 1.0 or more gives the
\* distance of 1.0.
C13_OutOfRangeIsClamped ==
    /\ camera.pc # "error"
    /\ camera.pc # "start" => camera.screen_fill_percentage \in 100..1000
    /\ camera.pc = "done" =>
           /\ camera.result # NoDistance
           /\ camera.arg <= 100 =>
                  camera.result =
                      calculate_camera_distance(camera.object_scale, camera.fov, 100)
           /\ camera.arg >= 1000 =>
                  camera.result =
                      calculate_camera_distance(camera.object_scale, camera.fov, 1000)

\* A call with the fill fraction 0 has returned ten times the base distance.
C13_Witness ==
    /\ camera.pc = "done"
    /\ camera.arg = 0
    /\ camera.result = RatMul(<<10, 1>>, camera.base_distance)

\* C14 as stated: for every fill fraction, the call with half the fraction
\* returns twice the distance.
C14_HalvingDoubles ==
    camera.pc = "done" =>
        calculate_camera_distance(camera.object_scale, camera.fov, camera.arg \div 2)
            = RatMul(<<2, 1>>, camera.result)

\* C14, amended: when the fill fraction and its half both lie in [0.1, 1.0],
\* the call with half the fraction returns twice the distance.
C14_HalvingDoublesInRange ==
    (camera.pc = "done" /\ camera.arg \in 200..1000) =>
        calculate_camera_distance(camera.object_scale, camera.fov, camera.arg \div 2)
            = RatMul(<<2, 1>>, camera.result)

\* The spec's example: the fill fraction 1.0, to be halved to 0.5.
C14_Witness ==
    /\ camera.pc = "done"
    /\ camera.arg = 1000
    /\ camera.fov = 4
    /\ camera.result = camera.base_distance
    /\ calculate_camera_distance(camera.object_scale, camera.fov, 500)
           = RatMul(<<2, 1>>, camera.base_distance)

(***************************************************************************)
(* The lights of the viewer, view_trimesh_object of src/inspect_glb.py     *)
(* from the camera distance on (lines 597-644).  The camera distance is    *)
(* taken in whole units.  The placement runs as a call of                  *)
(* optimize_light_positions over the process-global generator; its         *)
(* max_iterations, 1000 by default, is cut down to the bounds of the       *)
(* model.                                                                  *)
(***************************************************************************)
default_intensity == 50

IntensityValues == {10, default_intensity}

IntensityArgs ==
    {NoneArg}
    \cup {ScalarArg(v) : v \in IntensityValues}
    \cup {ListArg(s) : s \in UNION {[1..k -> IntensityValues] : k \in ListLengths}}

\* light_distances as the viewer is given it: nothing, a number, a list of
\* no or one entry.
ViewDistanceArgs ==
    {NoneArg, ListArg(<< >>)}
    \cup {ScalarArg(r) : r \in RadiusValues}
    \cup {ListArg(<<r>>) : r \in RadiusValues}

\* The record of the viewer when the camera has been placed at distance.
NewView(n, d, a, distance) ==
    [pc |-> "start", num_lights |-> n, distances_arg |-> d, intensities_arg |-> a,
     distance |-> distance, light_distances |-> << >>, light_intensities |-> << >>,
     light_positions |-> << >>, i |-> 0, lights |-> << >>]

\* A number becomes n copies of it; a list shorter than n is filled up with
\* its last entry; a list of n entries or more is kept.
ListOfLength(n, a) ==
    IF a.kind = "scalar" THEN [k \in 1..n |-> a.val[1]]
    ELSE IF Len(a.val) < n
         THEN a.val \o [k \in 1..(n - Len(a.val)) |-> a.val[Len(a.val)]]
         ELSE a.val

\* Lines 608-630.  With num_lights <= 0 the whole block is passed over.  The
\* last entry of an empty list raises IndexError, which the except clause of
\* the function prints: the scene is not shown.
PrepareStep(v) ==
    LET d == IF v.distances_arg = NoneArg THEN ScalarArg(v.distance) ELSE v.distances_arg
        a == IF v.intensities_arg = NoneArg THEN ScalarArg(default_intensity)
             ELSE v.intensities_arg
    IN  IF v.num_lights <= 0 THEN [v EXCEPT !.pc = "lights"]
        ELSE IF PadFails(v.num_lights, d) \/ PadFails(v.num_lights, a)
        THEN [v EXCEPT !.pc = "failed"]
        ELSE [v EXCEPT !.pc = "prepared",
                       !.light_distances = ListOfLength(v.num_lights, d),
                       !.light_intensities = ListOfLength(v.num_lights, a)]

\* Variant: every light is given the first intensity.
IntensityOfFirst(light_intensities, i) == light_intensities[1]

\* light_intensities[i]
IntensityOf(light_intensities, i) == light_intensities[i + 1]

\* One round of the loop of line 636.
AddLightStep(v) ==
    [v EXCEPT !.lights = Append(@, [position |-> v.light_positions[v.i + 1],
                                    intensity |-> IntensityOf(v.light_intensities, v.i)]),
              !.i = @ + 1]

InitView ==
    /\ \E n \in Counts, d \in ViewDistanceArgs, a \in IntensityArgs, distance \in RadiusValues :
           view = NewView(n, d, a, distance)
    /\ call = Idle /\ twin = Idle
    /\ rng \in 0..(RngStates - 1)
    /\ seed = rng
    /\ camera = Idle /\ store = Idle

ViewPrepare ==
    /\ view.pc = "start"
    /\ view' = PrepareStep(view)
    /\ UNCHANGED <<call, twin, rng, seed, camera, store>>

\* light_positions = optimize_light_positions(num_lights, light_distances):
\* the call begins
ViewPlace ==
    /\ view.pc = "prepared"
    /\ \E m \in 0..MaxIter :
           /\ view.num_lights * m <= MaxWork
           /\ call' = NewCall(view.num_lights, ListArg(view.light_distances), m)
    /\ view' = [view EXCEPT !.pc = "placing"]
    /\ UNCHANGED <<twin, rng, seed, camera, store>>

\* the call has returned
ViewPlaced ==
    /\ view.pc = "placing"
    /\ call.pc = "done"
    /\ view' = [view EXCEPT !.pc = "lights", !.light_positions = call.result]
    /\ UNCHANGED <<call, twin, rng, seed, camera, store>>

ViewAddLight ==
    /\ view.pc = "lights"
    /\ view.i < Len(view.light_positions)
    /\ view' = AddLightStep(view)
    /\ UNCHANGED <<call, twin, rng, seed, camera, store>>

\* pyrender.Viewer(scene, ...)
ViewShow ==
    /\ view.pc = "lights"
    /\ view.i >= Len(view.light_positions)
    /\ view' = [view EXCEPT !.pc = "shown"]
    /\ UNCHANGED <<call, twin, rng, seed, camera, store>>

NextView == ViewPrepare \/ ViewPlace \/ CallStep \/ ViewPlaced \/ ViewAddLight \/ ViewShow

SpecView == InitView /\ [][NextView]_vars

(***************************************************************************)
(* Properties of the lights of the viewer.                                 *)
(***************************************************************************)
\* The intensity the caller asked for light i (counted from 1): the default
\* when none is given, the number, the list's entry i, or its last entry
\* when the list is shorter.
AskedIntensity(a, i) ==
    IF a.kind = "none" THEN 50
    ELSE IF a.kind = "scalar" THEN a.val[1]
    ELSE IF i <= Len(a.val) THEN a.val[i]
    ELSE a.val[Len(a.val)]

\* The arguments have one of the forms the viewer takes: no list is empty.
TakenForms(v) ==
    /\ v.distances_arg.kind = "list" => v.distances_arg.val # << >>
    /\ v.intensities_arg.kind = "list" => v.intensities_arg.val # << >>

\* C17: for num_lights = N > 0 the scene gets N point lights, light i at the
\* i-th position the placement returned and with the i-th intensity asked
\* for (a number N times, a short list filled up with its last entry, 50.0
\* when none is given), added in that order; for num_lights <= 0 it gets no
\* point light.
C17_OneLightPerPosition ==
    /\ view.num_lights <= 0 => view.lights = << >> /\ call = Idle
    /\ (view.num_lights > 0 /\ TakenForms(view)) => view.pc # "failed"
    /\ (view.num_lights > 0 /\ view.pc \in {"lights", "shown"}) =>
           /\ Len(call.result) = view.num_lights
           /\ Len(view.lights) = view.i
           /\ view.pc = "shown" => Len(view.lights) = view.num_lights
           /\ \A k \in 1..Len(view.lights) :
                  /\ view.lights[k].position = call.result[k]
                  /\ view.lights[k].intensity = AskedIntensity(view.intensities_arg, k)

\* Three lights at three places, the intensities a list of two entries.
C17_Witness ==
    /\ view.pc = "shown"
    /\ view.num_lights = 3
    /\ view.intensities_arg = ListArg(<<50, 10>>)
    /\ Len(view.lights) = 3
    /\ view.lights[3].intensity = 10
    /\ Cardinality({view.lights[k].position : k \in 1..3}) = 3

(***************************************************************************)
(* The materials library, MATERIALS and get_material of                    *)
(* src/create/materials.py, and callers that change the dictionaries they  *)
(* are given (src/create/city/towers.py).                                  *)
(*                                                                         *)
(* A dictionary maps a key to a value.  A number or a truth value is the   *)
(* value itself; a list is an object of its own and the dictionary holds a *)
(* reference to it, here the index of the list in store.lists.  Colour     *)
(* components and factors are in hundredths.                               *)
(***************************************************************************)
MaxHanded == 2

\* The lists of the library: baseColorFactor of chrome and of polished concrete.
LibraryLists == <<<<90, 90, 90, 100>>, <<75, 75, 75, 100>>>>

\* Two of the materials, with the keys whose values differ in kind.
MATERIALS ==
    [metal |-> [chrome |-> [baseColorFactor |-> 1, metallicFactor |-> 100,
                            doubleSided |-> FALSE]],
     concrete |-> [polished |-> [baseColorFactor |-> 2, metallicFactor |-> 5,
                                 doubleSided |-> FALSE]]]

ListKeys == {"baseColorFactor"}

Categories == {"metal", "concrete", "glass"}
MaterialNames == {"chrome", "polished"}
\* what a caller writes into a colour
ComponentValues == {0, 100}

NewStore == [materials |-> MATERIALS, lists |-> LibraryLists, handed |-> << >>,
             raised |-> FALSE]

\* dict(MATERIALS[category][material_name]): a new dictionary with the keys
\* and the values of the original; a value that is a list is the same list.
CopyStep(st, category, material_name) ==
    [st EXCEPT !.handed = Append(@, st.materials[category][material_name])]

\* get_material(category, material_name)
GetMaterialStep(st, category, material_name) ==
    IF category \in DOMAIN st.materials
           /\ material_name \in DOMAIN st.materials[category]
    THEN CopyStep(st, category, material_name)
    ELSE [st EXCEPT !.raised = TRUE]

\* material["doubleSided"] = value, on a dictionary the caller was given
SetKeyStep(st, h, value) ==
    [st EXCEPT !.handed[h].doubleSided = value]

\* material["baseColorFactor"][k] = value
SetElementStep(st, h, k, value) ==
    [st EXCEPT !.lists[st.handed[h].baseColorFactor][k + 1] = value]

InitStore ==
    /\ store = NewStore
    /\ call = Idle /\ twin = Idle /\ rng = 0 /\ seed = 0
    /\ camera = Idle /\ view = Idle

GetMaterial ==
    /\ Len(store.handed) < MaxHanded
    /\ \E category \in Categories, material_name \in MaterialNames :
           store' = GetMaterialStep(store, category, material_name)
    /\ UNCHANGED <<call, twin, rng, seed, camera, view>>

SetKey ==
    /\ \E h \in 1..Len(store.handed), value \in BOOLEAN :
           store' = SetKeyStep(store, h, value)
    /\ UNCHANGED <<call, twin, rng, seed, camera, view>>

SetElement ==
    /\ \E h \in 1..Len(store.handed), k \in 0..3, value \in ComponentValues :
           store' = SetElementStep(store, h, k, value)
    /\ UNCHANGED <<call, twin, rng, seed, camera, view>>

NextStore == GetMaterial \/ SetKey \/ SetElement

SpecStore == InitStore /\ [][NextStore]_vars

(***************************************************************************)
(* Properties of the materials library.                                    *)
(***************************************************************************)
\* The property values of a dictionary, every list looked up.
Values(material, lists) ==
    [k \in DOMAIN material |->
         IF k \in ListKeys THEN lists[material[k]] ELSE material[k]]

\* C18: whatever dictionaries get_material has handed out and whatever the
\* callers have set in them (a key, or an element of a list-valued
\* property), every material of MATERIALS has its original property values,
\* and so has the dictionary a further get_material would return.
C18_LibraryUnchanged ==
    \A category \in DOMAIN MATERIALS :
        \A material_name \in DOMAIN MATERIALS[category] :
            /\ Values(store.materials[category][material_name], store.lists)
                   = Values(MATERIALS[category][material_name], LibraryLists)
            /\ LET later == GetMaterialStep(store, category, material_name)
               IN  Values(later.handed[Len(later.handed)], later.lists)
                       = Values(MATERIALS[category][material_name], LibraryLists)

====
